---- MODULE Spec2Model ----
(***************************************************************************)
(* A model of the jate terminal text editor (src/jate.c).                  *)
(*                                                                         *)
(* Bytes and keys are integers, as in the C source: a key below 256 is the *)
(* byte read from the terminal, the values from 1000 on are the editorKey  *)
(* enumeration.  A C string is a sequence of bytes.  Indices passed to the *)
(* operators are 0-based like the C indices; a sequence is 1-based, so     *)
(* row i of the C array is E.row[i + 1].                                   *)
(*                                                                         *)
(* The global struct editorConfig E is the record variable E; every C      *)
(* function that changes E is an operator from the old record to the new.  *)
(***************************************************************************)
EXTENDS Integers, Sequences, FiniteSets, TLC

VARIABLES
    E,          \* struct editorConfig E (plus heapok, see editorUpdateRow)
    quit_times, \* the static quit_times of editorProcessKeypress
    pc,         \* "start" | "editing" | "prompt" | "exited"
    pbuf,       \* buf of editorPrompt while pc = "prompt"
    fio,        \* the file I/O done by the last step
    typed,      \* the keys read so far, recorded in the scenario runs only
    term        \* the terminal and the process around the editor (see Term0)

vars == <<E, quit_times, pc, pbuf, fio, typed, term>>

----------------------------------------------------------------------------
(* defines *)

JATE_TABSTOP == 8
JATE_QUIT_TIMES == 3

TAB == 9
LF == 10
CR == 13
ESC == 27
SPACE == 32

CTRL_KEY(k) == k % 32

BACKSPACE == 127
ARROW_LEFT == 1000
ARROW_RIGHT == 1001
ARROW_UP == 1002
ARROW_DOWN == 1003
DEL_KEY == 1004
HOME_KEY == 1005
END_KEY == 1006
PAGE_UP == 1007
PAGE_DOWN == 1008

\* A char * is either NULL or points to a string.
NULL == <<>>
Ptr(s) == <<s>>
Deref(p) == p[1]

----------------------------------------------------------------------------
(* bounds of the model *)

MaxRows == 2
MaxLen == 2
MaxDirty == 3

\* the value the uninitialised local `tabs` of editorUpdateRow may hold
TabsGarbage == {0, -1}

----------------------------------------------------------------------------
(* sequence helpers: memmove/memcpy on arrays *)

InsertAt(s, at, x) == SubSeq(s, 1, at) \o <<x>> \o SubSeq(s, at + 1, Len(s))
RemoveAt(s, at) == SubSeq(s, 1, at) \o SubSeq(s, at + 2, Len(s))
Front(s, n) == SubSeq(s, 1, n)
Tail_(s, n) == SubSeq(s, n + 1, Len(s))

\* storing an int into a char (x86: char is signed)
ToChar(c) == ((c + 128) % 256) - 128

----------------------------------------------------------------------------
(* row operations *)

RECURSIVE CxToRxFrom(_, _, _, _)
CxToRxFrom(chars, cx, j, rx) ==
    IF j >= cx THEN rx
    ELSE LET rx1 == IF chars[j + 1] = TAB
                    THEN rx + (JATE_TABSTOP - 1) - (rx % JATE_TABSTOP)
                    ELSE rx
         IN CxToRxFrom(chars, cx, j + 1, rx1 + 1)

editorRowCxToRx(row, cx) == CxToRxFrom(row.chars, cx, 0, 0)

RECURSIVE PadTab(_)
PadTab(render) ==
    IF Len(render) % JATE_TABSTOP # 0 THEN PadTab(Append(render, SPACE))
    ELSE render

RECURSIVE RenderFrom(_, _, _)
RenderFrom(chars, j, render) ==
    IF j >= Len(chars) THEN render
    ELSE IF chars[j + 1] = TAB
         THEN RenderFrom(chars, j + 1, PadTab(Append(render, SPACE)))
         ELSE RenderFrom(chars, j + 1, Append(render, chars[j + 1]))

CountTabs(chars) == Cardinality({j \in 1..Len(chars) : chars[j] = TAB})

\* editorUpdateRow: the row with render and rsize recomputed from chars.
editorUpdateRow(row) ==
    LET render == RenderFrom(row.chars, 0, <<>>)
    IN [row EXCEPT !.render = render, !.rsize = Len(render)]

\* The malloc of editorUpdateRow: `int tabs;` is never initialised, so the
\* size asked for is size + (tabs0 + number of tabs) * 7 + 1 for whatever
\* value tabs0 the local held.  TRUE when the render bytes and the final
\* NUL fit the allocation.
RenderFits(row, tabs0) ==
    LET alloc == row.size + (tabs0 + CountTabs(row.chars)) * (JATE_TABSTOP - 1) + 1
    IN alloc >= editorUpdateRow(row).rsize + 1

NewRow(s) == editorUpdateRow([size |-> Len(s), rsize |-> 0, chars |-> s, render |-> <<>>])

editorInsertRow(e, at, s, tabs0) ==
    IF at < 0 \/ at > e.numrows THEN e
    ELSE [e EXCEPT !.row = InsertAt(e.row, at, NewRow(s)),
                   !.heapok = e.heapok /\ RenderFits(NewRow(s), tabs0),
                   !.numrows = e.numrows + 1,
                   !.dirty = e.dirty + 1]

\* a mutant: the last row is removed, whatever at is
editorDelRow_Last(e, at) ==
    IF at < 0 \/ at > e.numrows THEN e
    ELSE IF at = e.numrows
         THEN [e EXCEPT !.heapok = FALSE,
                        !.row = Front(e.row, e.numrows - 1),
                        !.numrows = e.numrows - 1,
                        !.dirty = e.dirty + 1]
         ELSE [e EXCEPT !.row = Front(e.row, e.numrows - 1),
                        !.numrows = e.numrows - 1,
                        !.dirty = e.dirty + 1]

\* editorDelRow: the guard is `at > E.numrows`, so at = numrows passes it and
\* frees and moves memory past the end of the array.
editorDelRow(e, at) ==
    IF at < 0 \/ at > e.numrows THEN e
    ELSE IF at = e.numrows
         THEN [e EXCEPT !.heapok = FALSE,
                        !.row = Front(e.row, e.numrows - 1),
                        !.numrows = e.numrows - 1,
                        !.dirty = e.dirty + 1]
         ELSE [e EXCEPT !.row = RemoveAt(e.row, at),
                        !.numrows = e.numrows - 1,
                        !.dirty = e.dirty + 1]

\* a mutant: the insertion is not counted in dirty
editorRowInsertChar_NoDirty(e, r, at0, c, tabs0) ==
    LET row == e.row[r + 1]
        at == IF at0 < 0 \/ at0 > row.size THEN row.size ELSE at0
        new == editorUpdateRow([row EXCEPT !.chars = InsertAt(row.chars, at, ToChar(c)),
                                           !.size = row.size + 1])
    IN [e EXCEPT !.row[r + 1] = new,
                 !.heapok = e.heapok /\ RenderFits(new, tabs0)]

\* r is the index of the row the C pointer `row` points to.
editorRowInsertChar(e, r, at0, c, tabs0) ==
    LET row == e.row[r + 1]
        at == IF at0 < 0 \/ at0 > row.size THEN row.size ELSE at0
        new == editorUpdateRow([row EXCEPT !.chars = InsertAt(row.chars, at, ToChar(c)),
                                           !.size = row.size + 1])
    IN [e EXCEPT !.row[r + 1] = new,
                 !.heapok = e.heapok /\ RenderFits(new, tabs0),
                 !.dirty = e.dirty + 1]

editorRowAppendString(e, r, s, tabs0) ==
    LET row == e.row[r + 1]
        new == editorUpdateRow([row EXCEPT !.chars = row.chars \o s,
                                           !.size = row.size + Len(s)])
    IN [e EXCEPT !.row[r + 1] = new,
                 !.heapok = e.heapok /\ RenderFits(new, tabs0),
                 !.dirty = e.dirty + 1]

\* a mutant: the deletion is not counted in dirty
editorRowDelChar_NoDirty(e, r, at, tabs0) ==
    LET row == e.row[r + 1]
        new == editorUpdateRow([row EXCEPT !.chars = RemoveAt(row.chars, at),
                                           !.size = row.size - 1])
    IN IF at < 0 \/ at >= row.size THEN e
       ELSE [e EXCEPT !.row[r + 1] = new,
                      !.heapok = e.heapok /\ RenderFits(new, tabs0)]

editorRowDelChar(e, r, at, tabs0) ==
    LET row == e.row[r + 1]
        new == editorUpdateRow([row EXCEPT !.chars = RemoveAt(row.chars, at),
                                           !.size = row.size - 1])
    IN IF at < 0 \/ at >= row.size THEN e
       ELSE [e EXCEPT !.row[r + 1] = new,
                      !.heapok = e.heapok /\ RenderFits(new, tabs0),
                      !.dirty = e.dirty + 1]

----------------------------------------------------------------------------
(* editor operations *)

editorInsertChar(e, c, tabs0) ==
    LET e1 == IF e.cy = e.numrows THEN editorInsertRow(e, e.numrows, <<>>, tabs0) ELSE e
        e2 == editorRowInsertChar(e1, e1.cy, e1.cx, c, tabs0)
    IN [e2 EXCEPT !.cx = e2.cx + 1]

editorInsertNewline(e, tabs0) ==
    LET e1 == IF e.cx = 0
              THEN editorInsertRow(e, e.cy, <<>>, tabs0)
              ELSE LET row == e.row[e.cy + 1]
                       ins == editorInsertRow(e, e.cy + 1, Tail_(row.chars, e.cx), tabs0)
                       cut == editorUpdateRow([ins.row[e.cy + 1] EXCEPT
                                                  !.size = e.cx,
                                                  !.chars = Front(row.chars, e.cx)])
                   IN [ins EXCEPT !.row[e.cy + 1] = cut,
                                  !.heapok = ins.heapok /\ RenderFits(cut, tabs0)]
    IN [e1 EXCEPT !.cy = e.cy + 1, !.cx = 0]

\* a mutant: the character under the cursor is deleted
DelCharLeft_AtCx(e, tabs0) ==
    LET e1 == editorRowDelChar(e, e.cy, e.cx, tabs0)
    IN [e1 EXCEPT !.cx = e.cx - 1]

\* editorDelChar, the branch E.cx > 0
DelCharLeft(e, tabs0) ==
    LET e1 == editorRowDelChar(e, e.cy, e.cx - 1, tabs0)
    IN [e1 EXCEPT !.cx = e.cx - 1]

\* a mutant: the cursor column is not moved to the join point
DelCharJoin_KeepCx(e, tabs0) ==
    LET row == e.row[e.cy + 1]
        e2 == editorRowAppendString(e, e.cy - 1, row.chars, tabs0)
        e3 == editorDelRow(e2, e.cy)
    IN [e3 EXCEPT !.cy = e.cy - 1]

\* editorDelChar, the else branch: join the line onto the previous one
DelCharJoin(e, tabs0) ==
    LET row == e.row[e.cy + 1]
        e1 == [e EXCEPT !.cx = e.row[e.cy].size]
        e2 == editorRowAppendString(e1, e.cy - 1, row.chars, tabs0)
        e3 == editorDelRow(e2, e.cy)
    IN [e3 EXCEPT !.cy = e.cy - 1]

\* a mutant: a line left empty by the deletion is removed
editorDelChar_DropEmpty(e, tabs0) ==
    IF e.cy = e.numrows THEN e
    ELSE IF e.cx = 0 /\ e.cy = 0 THEN e
    ELSE IF e.cx > 0
         THEN LET d == DelCharLeft(e, tabs0)
              IN IF d.row[d.cy + 1].size = 0 THEN editorDelRow(d, d.cy) ELSE d
    ELSE DelCharJoin(e, tabs0)

editorDelChar(e, tabs0) ==
    IF e.cy = e.numrows THEN e
    ELSE IF e.cx = 0 /\ e.cy = 0 THEN e
    ELSE IF e.cx > 0 THEN DelCharLeft(e, tabs0)
    ELSE DelCharJoin(e, tabs0)

----------------------------------------------------------------------------
(* file i/o *)

RECURSIVE RowsToStringFrom(_, _, _)
RowsToStringFrom(e, j, buf) ==
    IF j >= e.numrows THEN buf
    ELSE RowsToStringFrom(e, j + 1, buf \o e.row[j + 1].chars \o <<LF>>)

\* editorRowsToString: the bytes of the buffer; *buflen is their number.
editorRowsToString(e) == RowsToStringFrom(e, 0, <<>>)

\* getline: the bytes up to and including the first '\n', or all of them.
RECURSIVE GetLineLen(_, _)
GetLineLen(bytes, n) ==
    IF n >= Len(bytes) THEN n
    ELSE IF bytes[n + 1] = LF THEN n + 1
    ELSE GetLineLen(bytes, n + 1)

\* a mutant: only '\n' is stripped
RECURSIVE StripLen_OnlyLF(_, _)
StripLen_OnlyLF(line, linelen) ==
    IF linelen > 0 /\ line[linelen] = LF
    THEN StripLen_OnlyLF(line, linelen - 1)
    ELSE linelen

\* the inner while of editorOpen: linelen after stripping '\n' and '\r'
RECURSIVE StripLen(_, _)
StripLen(line, linelen) ==
    IF linelen > 0 /\ (line[linelen] = LF \/ line[linelen] = CR)
    THEN StripLen(line, linelen - 1)
    ELSE linelen

\* the outer while of editorOpen over the bytes left in the file
RECURSIVE ReadLines(_, _, _)
ReadLines(e, bytes, tabs0) ==
    IF bytes = <<>> THEN e
    ELSE LET n == GetLineLen(bytes, 0)
             line == Front(bytes, n)
             linelen == StripLen(line, n)
         IN ReadLines(editorInsertRow(e, e.numrows, Front(line, linelen), tabs0),
                      Tail_(bytes, n), tabs0)

\* editorOpen of a file that fopen could open, holding `bytes`.
editorOpen(e, filename, bytes, tabs0) ==
    LET e1 == ReadLines([e EXCEPT !.filename = Ptr(filename)], bytes, tabs0)
    IN [e1 EXCEPT !.dirty = 0]

----------------------------------------------------------------------------
(* output *)

Msg(kind, n, text) == [kind |-> kind, n |-> n, text |-> text]

editorSetStatusMessage(e, msg) == [e EXCEPT !.statusmsg = msg]

\* a mutant: the column offset is one short of showing the cursor
editorScroll_OneShort(e) ==
    LET rx == IF e.cy < e.numrows THEN editorRowCxToRx(e.row[e.cy + 1], e.cx) ELSE 0
        rowoff1 == IF e.cy < e.rowoff THEN e.cy ELSE e.rowoff
        rowoff2 == IF e.cy >= rowoff1 + e.screenrows
                   THEN e.cy - e.screenrows + 1 ELSE rowoff1
        coloff1 == IF rx < e.coloff THEN rx ELSE e.coloff
        coloff2 == IF rx >= coloff1 + e.screencols
                   THEN rx - e.screencols ELSE coloff1
    IN [e EXCEPT !.rx = rx, !.rowoff = rowoff2, !.coloff = coloff2]

editorScroll(e) ==
    LET rx == IF e.cy < e.numrows THEN editorRowCxToRx(e.row[e.cy + 1], e.cx) ELSE 0
        rowoff1 == IF e.cy < e.rowoff THEN e.cy ELSE e.rowoff
        rowoff2 == IF e.cy >= rowoff1 + e.screenrows
                   THEN e.cy - e.screenrows + 1 ELSE rowoff1
        coloff1 == IF rx < e.coloff THEN rx ELSE e.coloff
        coloff2 == IF rx >= coloff1 + e.screencols
                   THEN rx - e.screencols + 1 ELSE coloff1
    IN [e EXCEPT !.rx = rx, !.rowoff = rowoff2, !.coloff = coloff2]

\* editorRefreshScreen changes E only through editorScroll.
editorRefreshScreen(e) == editorScroll(e)

----------------------------------------------------------------------------
(* input *)

\* the switch of editorMoveCursor
MoveCursorSwitch(e, key) ==
    LET hasrow == e.cy < e.numrows
    IN IF key = ARROW_LEFT
       THEN IF e.cx > 0 THEN [e EXCEPT !.cx = e.cx - 1]
            ELSE IF e.cy > 0
                 THEN [e EXCEPT !.cy = e.cy - 1, !.cx = e.row[e.cy].size]
                 ELSE e
       ELSE IF key = ARROW_RIGHT
       THEN IF hasrow /\ e.cx < e.row[e.cy + 1].size
            THEN [e EXCEPT !.cx = e.cx + 1]
            ELSE IF hasrow /\ e.cx = e.row[e.cy + 1].size
                 THEN [e EXCEPT !.cy = e.cy + 1, !.cx = 0]
                 ELSE e
       ELSE IF key = ARROW_UP
       THEN IF e.cy > 0 THEN [e EXCEPT !.cy = e.cy - 1] ELSE e
       ELSE IF key = ARROW_DOWN
       THEN IF e.cy < e.numrows THEN [e EXCEPT !.cy = e.cy + 1] ELSE e
       ELSE e

\* the end of editorMoveCursor: snap cx to the end of the line
SnapCx(e) ==
    LET rowlen == IF e.cy >= e.numrows THEN 0 ELSE e.row[e.cy + 1].size
    IN IF e.cx > rowlen THEN [e EXCEPT !.cx = rowlen] ELSE e

\* a mutant: the page keys are taken for the arrows Up and Down
editorMoveCursor_PageAsArrow(e, key) ==
    SnapCx(MoveCursorSwitch(e, IF key = PAGE_UP THEN ARROW_UP
                               ELSE IF key = PAGE_DOWN THEN ARROW_DOWN
                               ELSE key))

\* a mutant: the cursor is not snapped to the end of the line
editorMoveCursor_NoSnap(e, key) == MoveCursorSwitch(e, key)

editorMoveCursor(e, key) == SnapCx(MoveCursorSwitch(e, key))

\* while (times--) editorMoveCursor(key);
RECURSIVE MoveCursorTimes(_, _, _)
MoveCursorTimes(e, key, times) ==
    IF times <= 0 THEN e
    ELSE MoveCursorTimes(editorMoveCursor(e, key), key, times - 1)

----------------------------------------------------------------------------
(* terminal *)

\* The terminal and the process:
\*   attrs   the attributes in force: "orig" (E.orig_termios) or "raw"
\*   atexit  the functions registered with atexit
\*   log     the changes of attributes, and what die and the quit case wrote
\*           (the frames of editorRefreshScreen are not logged)
\*   stdin   the results of the read calls to come
\*   status  "running", or how the process ended
Term0 == [attrs |-> "orig", atexit |-> <<>>, log |-> <<>>, stdin |-> <<>>,
          status |-> "running"]

\* how a tcgetattr, tcsetattr, ioctl or fopen call ends
CallResults == {"ok", "failed"}

\* exit called again while exit runs the atexit functions is undefined: the
\* second call may end the process with its status or never return
ExitTwice == {"exit 1", "hung"}

Ev(op, arg) == <<op, arg>>

Log(t, evs) == [t EXCEPT !.log = @ \o evs]

\* the two writes and the perror of die
DieOutput(s) == <<Ev("write", "\\x1b[2J"), Ev("write", "\\x1b[H"), Ev("perror", s)>>

\* disableRawMode, run by exit; tc is how its tcsetattr ends.  When it fails
\* die calls exit a second time.
disableRawMode(t, tc, twice) ==
    IF tc = "ok" THEN [Log(t, <<Ev("tcsetattr", "orig")>>) EXCEPT !.attrs = "orig"]
    ELSE [Log(t, DieOutput("tcsetattr")) EXCEPT !.status = twice]

\* a mutant: the process ends without running the atexit functions
exit_NoAtexit(t, status, tc, twice) == [t EXCEPT !.status = status]

\* exit(status): the atexit functions, then the end of the process
exit_(t, status, tc, twice) ==
    LET t1 == IF t.atexit # <<>> THEN disableRawMode(t, tc, twice) ELSE t
    IN IF t1.status = "running" THEN [t1 EXCEPT !.status = status] ELSE t1

\* a mutant: die restores the terminal before it writes
die_RestoreFirst(t, s, tc, twice) ==
    LET t1 == exit_(t, "exit 1", tc, twice)
    IN Log(t1, DieOutput(s))

die(t, s, tc, twice) == exit_(Log(t, DieOutput(s)), "exit 1", tc, twice)

\* enableRawMode; get and set are how its tcgetattr and tcsetattr end
enableRawMode(t, get, set, tc, twice) ==
    IF get = "failed" THEN die(t, "tcgetattr", tc, twice)
    ELSE LET t1 == [t EXCEPT !.atexit = Append(@, "disableRawMode")]
         IN IF set = "failed" THEN die(t1, "tcsetattr", tc, twice)
            ELSE [Log(t1, <<Ev("tcsetattr", "raw")>>) EXCEPT !.attrs = "raw"]

\* the result of one read(STDIN_FILENO, &c, 1): nread = 1 and the byte c,
\* nread = 0 when the VTIME timeout passed, nread = -1 and errno
ReadByte(b) == [nread |-> 1, c |-> b, errno |-> "none"]
ReadNone == [nread |-> 0, c |-> 0, errno |-> "none"]
ReadFail(e) == [nread |-> -1, c |-> 0, errno |-> e]

\* the next read of the input `in`; with nothing left the read times out
read(in) == IF in = <<>> THEN ReadNone ELSE Head(in)

Rest(in) == IF in = <<>> THEN <<>> ELSE Tail(in)

Returned(key, in, reads) == [key |-> key, rest |-> in, reads |-> reads, die |-> FALSE]

\* a mutant: the third byte is not read, "ESC [ digit" is decoded at once
ReadEscape_NoTilde(in) ==
    LET r0 == read(in)
        in1 == Rest(in)
        r1 == read(in1)
        in2 == Rest(in1)
        seq0 == ToChar(r0.c)
        seq1 == ToChar(r1.c)
    IN IF r0.nread # 1 THEN Returned(ESC, in1, 1)
       ELSE IF r1.nread # 1 THEN Returned(ESC, in2, 2)
       ELSE IF seq0 = 91 /\ seq1 >= 48 /\ seq1 <= 57
       THEN Returned(CASE seq1 = 49 -> HOME_KEY [] seq1 = 51 -> DEL_KEY
                       [] seq1 = 52 -> END_KEY [] seq1 = 53 -> PAGE_UP
                       [] seq1 = 54 -> PAGE_DOWN [] seq1 = 55 -> HOME_KEY
                       [] seq1 = 56 -> END_KEY [] OTHER -> ESC, in2, 2)
       ELSE IF seq0 = 91
       THEN Returned(CASE seq1 = 65 -> ARROW_UP [] seq1 = 66 -> ARROW_DOWN
                       [] seq1 = 67 -> ARROW_RIGHT [] seq1 = 68 -> ARROW_LEFT
                       [] seq1 = 72 -> HOME_KEY [] seq1 = 70 -> END_KEY
                       [] OTHER -> ESC, in2, 2)
       ELSE IF seq0 = 79
       THEN Returned(CASE seq1 = 72 -> HOME_KEY [] seq1 = 70 -> END_KEY
                       [] OTHER -> ESC, in2, 2)
       ELSE Returned(ESC, in2, 2)

\* editorReadKey after it read '\x1b': `in` holds the reads to come.  The
\* bytes: '[' 91, 'O' 79, '0'..'9' 48..57, '~' 126, 'A'..'D' 65..68, 'F' 70,
\* 'H' 72.
ReadEscape(in) ==
    LET r0 == read(in)
        in1 == Rest(in)
        r1 == read(in1)
        in2 == Rest(in1)
        r2 == read(in2)
        in3 == Rest(in2)
        seq0 == ToChar(r0.c)
        seq1 == ToChar(r1.c)
        seq2 == ToChar(r2.c)
    IN IF r0.nread # 1 THEN Returned(ESC, in1, 1)
       ELSE IF r1.nread # 1 THEN Returned(ESC, in2, 2)
       ELSE IF seq0 = 91 /\ seq1 >= 48 /\ seq1 <= 57
       THEN IF r2.nread # 1 THEN Returned(ESC, in3, 3)
            ELSE IF seq2 = 126
            THEN Returned(CASE seq1 = 49 -> HOME_KEY [] seq1 = 51 -> DEL_KEY
                            [] seq1 = 52 -> END_KEY [] seq1 = 53 -> PAGE_UP
                            [] seq1 = 54 -> PAGE_DOWN [] seq1 = 55 -> HOME_KEY
                            [] seq1 = 56 -> END_KEY [] OTHER -> ESC, in3, 3)
            ELSE Returned(ESC, in3, 3)
       ELSE IF seq0 = 91
       THEN Returned(CASE seq1 = 65 -> ARROW_UP [] seq1 = 66 -> ARROW_DOWN
                       [] seq1 = 67 -> ARROW_RIGHT [] seq1 = 68 -> ARROW_LEFT
                       [] seq1 = 72 -> HOME_KEY [] seq1 = 70 -> END_KEY
                       [] OTHER -> ESC, in2, 2)
       ELSE IF seq0 = 79
       THEN Returned(CASE seq1 = 72 -> HOME_KEY [] seq1 = 70 -> END_KEY
                       [] OTHER -> ESC, in2, 2)
       ELSE Returned(ESC, in2, 2)

\* editorReadKey on the input `in`, which holds a byte or an error: the key
\* returned, the input left and the number of reads after the first byte; or
\* die("read").  c is a (signed) char converted to int on return.
RECURSIVE editorReadKey(_)
editorReadKey(in) ==
    LET r == Head(in)
    IN IF r.nread # 1
       THEN IF r.nread = -1 /\ r.errno # "EAGAIN"
            THEN [key |-> 0, rest |-> Tail(in), reads |-> 0, die |-> TRUE]
            ELSE editorReadKey(Tail(in))
       ELSE IF ToChar(r.c) = ESC THEN ReadEscape(Tail(in))
       ELSE Returned(ToChar(r.c), Tail(in), 0)

\* TRUE when editorReadKey returns on the input `in` (it waits for a byte
\* otherwise)
HasKey(in) ==
    \E i \in 1..Len(in) : in[i].nread = 1 \/ (in[i].nread = -1 /\ in[i].errno # "EAGAIN")

\* the end of case CTRL_KEY('q'): two writes (that begin with '\x0b') and
\* exit(0)
QuitExit(t, tc, twice) ==
    exit_(Log(t, <<Ev("write", "\\x0b[2J"), Ev("write", "\\x0b[H")>>), "exit 0", tc, twice)

\* the terminal after a key step from s to n: the step that ends in exit(0)
\* runs the atexit functions
TermsAfter(t, s, n) ==
    IF s.pc # "exited" /\ n.pc = "exited"
    THEN {QuitExit(t, tc, twice) : tc \in CallResults, twice \in ExitTwice}
    ELSE {t}

----------------------------------------------------------------------------
(* the program state as one record, and the steps of main's loop *)

St(e, q, p, b, f) == [E |-> e, quit_times |-> q, pc |-> p, pbuf |-> b, fio |-> f]

Cur == St(E, quit_times, pc, pbuf, fio)

NoIO == [op |-> "none", name |-> <<>>, bytes |-> <<>>]

\* how open/ftruncate/write of editorSave end
IoResults == {"ok", "open_failed", "ftruncate_failed", "write_failed"}

iscntrl(c) == (c >= 0 /\ c < 32) \/ c = 127

\* a mutant: dirty is cleared whether or not the bytes were written
editorSaveWrite_AlwaysClean(s, ior) ==
    LET buf == editorRowsToString(s.E)
        len == Len(buf)
    IN IF ior = "ok"
       THEN [s EXCEPT !.E = editorSetStatusMessage([s.E EXCEPT !.dirty = 0],
                                  Msg("bytes written to disk", len, <<>>)),
                      !.fio = [op |-> "write", name |-> Deref(s.E.filename), bytes |-> buf]]
       ELSE [s EXCEPT !.E = editorSetStatusMessage([s.E EXCEPT !.dirty = 0],
                                  Msg("Can't save! I/O error", 0, <<>>)),
                      !.fio = [op |-> ior, name |-> Deref(s.E.filename), bytes |-> <<>>]]

\* editorSave from `int len;` on: E.filename is bound.
editorSaveWrite(s, ior) ==
    LET buf == editorRowsToString(s.E)
        len == Len(buf)
    IN IF ior = "ok"
       THEN [s EXCEPT !.E = editorSetStatusMessage([s.E EXCEPT !.dirty = 0],
                                  Msg("bytes written to disk", len, <<>>)),
                      !.fio = [op |-> "write", name |-> Deref(s.E.filename), bytes |-> buf]]
       ELSE [s EXCEPT !.E = editorSetStatusMessage(s.E, Msg("Can't save! I/O error", 0, <<>>)),
                      !.fio = [op |-> ior, name |-> Deref(s.E.filename), bytes |-> <<>>]]

\* a mutant: the Ctrl-S case returns without the reset of quit_times
editorSaveAfterPrompt_NoReset(s, p, ior) ==
    LET s1 == [s EXCEPT !.E.filename = p, !.pc = "editing", !.pbuf = <<>>]
    IN IF p = NULL
       THEN [s1 EXCEPT !.E = editorSetStatusMessage(s1.E, Msg("Save aborted", 0, <<>>))]
       ELSE editorSaveWrite(s1, ior)

\* editorSave after editorPrompt returned p, and the rest of the Ctrl-S case
\* of editorProcessKeypress.
editorSaveAfterPrompt(s, p, ior) ==
    LET s1 == [s EXCEPT !.E.filename = p, !.pc = "editing", !.pbuf = <<>>]
        s2 == IF p = NULL
              THEN [s1 EXCEPT !.E = editorSetStatusMessage(s1.E, Msg("Save aborted", 0, <<>>))]
              ELSE editorSaveWrite(s1, ior)
    IN [s2 EXCEPT !.quit_times = JATE_QUIT_TIMES]

\* editorPrompt from `int c = editorReadKey();` to the end of the loop body,
\* with c the key read.
editorPrompt(s, c, ior) ==
    LET buflen == Len(s.pbuf)
    IN IF c = DEL_KEY \/ c = CTRL_KEY(104) \/ c = BACKSPACE
       THEN IF buflen # 0 THEN [s EXCEPT !.pbuf = Front(s.pbuf, buflen - 1)] ELSE s
       ELSE IF c # ESC
       THEN editorSaveAfterPrompt(
                [s EXCEPT !.E = editorSetStatusMessage(s.E, Msg("", 0, <<>>))], NULL, ior)
       ELSE IF c = CR
       THEN IF buflen # 0
            THEN editorSaveAfterPrompt(
                     [s EXCEPT !.E = editorSetStatusMessage(s.E, Msg("", 0, <<>>))],
                     Ptr(s.pbuf), ior)
            ELSE s
       ELSE IF ~iscntrl(c) /\ c < 128
       THEN [s EXCEPT !.pbuf = Append(s.pbuf, c)]
       ELSE s

\* editorSave up to the first editorReadKey of editorPrompt, or to its end
\* when a filename is bound.
editorSave(s, ior) ==
    IF s.E.filename = NULL
    THEN [s EXCEPT !.pc = "prompt", !.pbuf = <<>>]
    ELSE editorSaveWrite(s, ior)

\* a mutant: one warning fewer
QuitCase_OneFewer(s) ==
    IF s.E.dirty # 0 /\ s.quit_times > 1
    THEN [s EXCEPT !.E = editorSetStatusMessage(s.E,
                             Msg("WARNING!!! File has unsaved changes", s.quit_times, <<>>)),
                   !.quit_times = s.quit_times - 1]
    ELSE [s EXCEPT !.pc = "exited"]

\* case CTRL_KEY('q') of editorProcessKeypress
QuitCase(s) ==
    IF s.E.dirty # 0 /\ s.quit_times > 0
    THEN [s EXCEPT !.E = editorSetStatusMessage(s.E,
                             Msg("WARNING!!! File has unsaved changes", s.quit_times, <<>>)),
                   !.quit_times = s.quit_times - 1]
    ELSE [s EXCEPT !.pc = "exited"]

\* the block of case PAGE_UP / PAGE_DOWN of editorProcessKeypress: the jump
\* to the top or bottom of the screen, then screenrows moves up or down
PageMove(e, c) ==
    LET e1 == IF c = PAGE_UP
              THEN [e EXCEPT !.cy = e.rowoff]
              ELSE LET cy1 == e.rowoff + e.screenrows - 1
                   IN [e EXCEPT !.cy = IF cy1 > e.numrows THEN e.numrows ELSE cy1]
    IN MoveCursorTimes(e1, IF c = PAGE_UP THEN ARROW_UP ELSE ARROW_DOWN, e.screenrows)

\* editorProcessKeypress with c the key editorReadKey returned.
editorProcessKeypress(s, c, tabs0, ior) ==
    LET e == s.E
        reset(s1) == IF s1.pc = "editing"
                     THEN [s1 EXCEPT !.quit_times = JATE_QUIT_TIMES] ELSE s1
    IN IF c = CR
       THEN reset([s EXCEPT !.E = editorInsertNewline(e, tabs0)])
       ELSE IF c = CTRL_KEY(113)
       THEN QuitCase(s)
       ELSE IF c = CTRL_KEY(115)
       THEN reset(editorSave(s, ior))
       ELSE IF c = HOME_KEY
       THEN reset([s EXCEPT !.E.cx = 0])
       ELSE IF c = END_KEY
       THEN reset(IF e.cy < e.numrows
                  THEN [s EXCEPT !.E.cx = e.row[e.cy + 1].size] ELSE s)
       ELSE IF c = BACKSPACE \/ c = CTRL_KEY(104) \/ c = DEL_KEY
       THEN LET e1 == IF c = DEL_KEY THEN editorMoveCursor(e, ARROW_RIGHT) ELSE e
            IN reset([s EXCEPT !.E = editorDelChar(e1, tabs0)])
       ELSE IF c = PAGE_UP \/ c = PAGE_DOWN
       THEN LET e2 == PageMove(e, c)
                \* no break: falls through into the arrow cases
            IN reset([s EXCEPT !.E = editorMoveCursor(e2, c)])
       ELSE IF c = ARROW_UP \/ c = ARROW_DOWN \/ c = ARROW_LEFT \/ c = ARROW_RIGHT
       THEN reset([s EXCEPT !.E = editorMoveCursor(e, c)])
       ELSE IF c = CTRL_KEY(108) \/ c = ESC
       THEN reset(s)
       ELSE reset([s EXCEPT !.E = editorInsertChar(e, c, tabs0)])

\* What happens between two returns of editorReadKey: the rest of the handler
\* of the key c, then up to the next editorReadKey: main's editorRefreshScreen
\* or, inside editorPrompt, editorSetStatusMessage and editorRefreshScreen.
ToNextRead(s) ==
    IF s.pc = "editing" THEN [s EXCEPT !.E = editorRefreshScreen(s.E)]
    ELSE IF s.pc = "prompt"
    THEN [s EXCEPT !.E = editorRefreshScreen(
                             editorSetStatusMessage(s.E, Msg("Save as: ", 0, s.pbuf)))]
    ELSE s

KeyStep(s, c, tabs0, ior) ==
    ToNextRead(IF s.pc = "prompt" THEN editorPrompt([s EXCEPT !.fio = NoIO], c, ior)
               ELSE editorProcessKeypress([s EXCEPT !.fio = NoIO], c, tabs0, ior))

----------------------------------------------------------------------------
(* init *)

initEditor(rows, cols) ==
    [cx |-> 0, cy |-> 0, rx |-> 0, rowoff |-> 0, coloff |-> 0,
     screenrows |-> rows - 2, screencols |-> cols,
     numrows |-> 0, row |-> <<>>, dirty |-> 0, filename |-> NULL,
     statusmsg |-> Msg("", 0, <<>>), heapok |-> TRUE]

\* main up to the first editorReadKey; argv1 is NULL or points to
\* [name, bytes], the file named on the command line and what it holds.
main(s, argv1, tabs0) ==
    LET e1 == IF argv1 # NULL
              THEN editorOpen(s.E, Deref(argv1).name, Deref(argv1).bytes, tabs0)
              ELSE s.E
        e2 == editorSetStatusMessage(e1, Msg("HELP: Ctrl-s = Save | Ctrl-q = Quit", 0, <<>>))
    IN ToNextRead([s EXCEPT !.E = e2, !.pc = "editing",
                            !.fio = IF argv1 # NULL
                                    THEN [op |-> "read", name |-> Deref(argv1).name,
                                          bytes |-> Deref(argv1).bytes]
                                    ELSE NoIO])

----------------------------------------------------------------------------
(* the editor under any keys *)

\* the terminal sizes getWindowSize may report (rows, columns)
WindowSizes == {<<3, 2>>}

\* the files the editor may be started on
StartFiles == {[name |-> <<102>>, bytes |-> <<97, LF>>],
               [name |-> <<102>>, bytes |-> <<CR, 97>>]}

\* the bytes the default case may insert: a letter, Tab and Ctrl-J
CharKeys == {97, TAB, LF}

AllKeys == CharKeys \cup {CR, ESC, CTRL_KEY(113), CTRL_KEY(115), CTRL_KEY(104),
                          CTRL_KEY(108), BACKSPACE, ARROW_LEFT, ARROW_RIGHT, ARROW_UP,
                          ARROW_DOWN, DEL_KEY, HOME_KEY, END_KEY, PAGE_UP, PAGE_DOWN}

Bounded ==
    /\ E.numrows <= MaxRows
    /\ \A i \in 1..Len(E.row) : E.row[i].size <= MaxLen
    /\ E.dirty <= MaxDirty

Apply(n) ==
    /\ E' = n.E
    /\ quit_times' = n.quit_times
    /\ pc' = n.pc
    /\ pbuf' = n.pbuf
    /\ fio' = n.fio

\* the step of the key c read in the main loop
Key(c, tabs0, ior) ==
    /\ Apply(KeyStep(Cur, c, tabs0, ior))
    /\ Bounded'
    /\ term' \in TermsAfter(term, Cur, KeyStep(Cur, c, tabs0, ior))
    /\ UNCHANGED typed

Editing == pc = "editing" /\ E.heapok

Init ==
    /\ \E w \in WindowSizes : E = initEditor(w[1], w[2])
    /\ quit_times = JATE_QUIT_TIMES
    /\ pc = "start"
    /\ pbuf = <<>>
    /\ fio = NoIO
    /\ typed = <<>>
    /\ term = enableRawMode(Term0, "ok", "ok", "ok", "exit 1")

Main ==
    /\ pc = "start"
    /\ \E argv1 \in {NULL} \cup {Ptr(f) : f \in StartFiles}, tabs0 \in TabsGarbage :
           Apply(main(Cur, argv1, tabs0))
    /\ Bounded'
    /\ UNCHANGED <<typed, term>>

InsertNewline ==
    /\ Editing
    /\ \E tabs0 \in TabsGarbage : Key(CR, tabs0, "ok")

Quit ==
    /\ Editing
    /\ Key(CTRL_KEY(113), 0, "ok")

Save ==
    /\ Editing
    /\ \E ior \in IoResults : Key(CTRL_KEY(115), 0, ior)

Home ==
    /\ Editing
    /\ Key(HOME_KEY, 0, "ok")

End ==
    /\ Editing
    /\ Key(END_KEY, 0, "ok")

Backspace ==
    /\ Editing
    /\ \E c \in {BACKSPACE, CTRL_KEY(104)}, tabs0 \in TabsGarbage : Key(c, tabs0, "ok")

Delete ==
    /\ Editing
    /\ \E tabs0 \in TabsGarbage : Key(DEL_KEY, tabs0, "ok")

Page ==
    /\ Editing
    /\ \E c \in {PAGE_UP, PAGE_DOWN} : Key(c, 0, "ok")

Arrow ==
    /\ Editing
    /\ \E c \in {ARROW_UP, ARROW_DOWN, ARROW_LEFT, ARROW_RIGHT} : Key(c, 0, "ok")

Ignored ==
    /\ Editing
    /\ \E c \in {CTRL_KEY(108), ESC} : Key(c, 0, "ok")

InsertChar ==
    /\ Editing
    /\ \E c \in CharKeys, tabs0 \in TabsGarbage : Key(c, tabs0, "ok")

\* one key read inside editorPrompt
PromptKey ==
    /\ pc = "prompt"
    /\ E.heapok
    /\ \E c \in AllKeys, ior \in IoResults : Apply(KeyStep(Cur, c, 0, ior))
    /\ UNCHANGED <<typed, term>>

Next ==
    \/ Main
    \/ InsertNewline
    \/ Quit
    \/ Save
    \/ Home
    \/ End
    \/ Backspace
    \/ Delete
    \/ Page
    \/ Arrow
    \/ Ignored
    \/ InsertChar
    \/ PromptKey

Spec == Init /\ [][Next]_vars

----------------------------------------------------------------------------
(* the cursor *)

AfterStartup == pc \in {"editing", "prompt", "exited"}

RowChars(e) == [i \in 1..Len(e.row) |-> e.row[i].chars]

\* C1: with a text area of at least one row and one column, after every key
\* the cursor satisfies 0 <= cy <= numrows and 0 <= cx <= size of line cy,
\* and cx = 0 when cy = numrows.
C1_CursorInvariant ==
    (AfterStartup /\ E.screenrows >= 1 /\ E.screencols >= 1) =>
        /\ 0 <= E.cy /\ E.cy <= E.numrows
        /\ E.numrows = Len(E.row)
        /\ 0 <= E.cx
        /\ IF E.cy = E.numrows THEN E.cx = 0 ELSE E.cx <= E.row[E.cy + 1].size

\* a key has moved the cursor below the last of two lines of different length
C1_Witness ==
    /\ pc = "editing"
    /\ E.numrows = 2
    /\ E.cy = 2
    /\ E.row[1].size = 2
    /\ E.row[2].size = 0
    /\ E.rowoff > 0

----------------------------------------------------------------------------
(* quitting *)

\* The number of consecutive Ctrl-Q presses after which the editor has
\* terminated, counted up to `most`.
RECURSIVE PressesToQuit(_, _)
PressesToQuit(s, most) ==
    IF s.pc = "exited" \/ most = 0 THEN 0
    ELSE 1 + PressesToQuit(KeyStep(s, CTRL_KEY(113), 0, "ok"), most - 1)

QuitProbe == 2 * JATE_QUIT_TIMES

UnsavedAtRest == pc = "editing" /\ E.dirty # 0 /\ quit_times = JATE_QUIT_TIMES

\* C2 as stated: with unsaved changes and the counter at its initial value
\* the editor terminates on the 3rd consecutive Ctrl-Q.
C2_Original == UnsavedAtRest => PressesToQuit(Cur, QuitProbe) = JATE_QUIT_TIMES

\* C2 amended: with unsaved changes and the counter at its initial value the
\* editor warns on the 1st, 2nd and 3rd consecutive Ctrl-Q and terminates on
\* the 4th.
C2_FourPresses == UnsavedAtRest => PressesToQuit(Cur, QuitProbe) = JATE_QUIT_TIMES + 1

\* three warnings were given and the editor still runs
C2_Witness == pc = "editing" /\ E.dirty # 0 /\ quit_times = 0

\* C3: every key of the Editing state other than Ctrl-Q, once handled (for
\* Ctrl-S: once the prompt it opened has ended), leaves the counter at 3; a
\* Ctrl-Q that only warns changes neither the lines nor the cursor.
C3_CounterReset ==
    /\ (pc \in {"editing", "prompt"} /\ E.heapok) =>
           \A c \in AllKeys, tabs0 \in TabsGarbage, ior \in IoResults :
               (pc = "editing" => c # CTRL_KEY(113)) =>
                   LET n == KeyStep(Cur, c, tabs0, ior)
                   IN n.pc = "editing" => n.quit_times = JATE_QUIT_TIMES
    /\ (pc = "editing" /\ E.dirty # 0 /\ quit_times > 0) =>
           LET n == KeyStep(Cur, CTRL_KEY(113), 0, "ok")
           IN /\ n.pc = "editing"
              /\ n.E.row = E.row
              /\ n.E.numrows = E.numrows
              /\ n.E.cx = E.cx
              /\ n.E.cy = E.cy

\* a warning was given, then another key was handled
C3_Witness ==
    /\ pc = "editing"
    /\ E.dirty # 0
    /\ quit_times = JATE_QUIT_TIMES
    /\ E.statusmsg.kind = "WARNING!!! File has unsaved changes"
    /\ E.statusmsg.n = 1

----------------------------------------------------------------------------
(* scenarios: the keys read are recorded in typed *)

\* one key read, in the main loop or in editorPrompt, with file I/O that works
Type(c, tabs0) ==
    /\ pc \in {"editing", "prompt"}
    /\ E.heapok
    /\ Apply(KeyStep(Cur, c, tabs0, "ok"))
    /\ typed' = Append(typed, c)
    /\ term' \in TermsAfter(term, Cur, KeyStep(Cur, c, tabs0, "ok"))

\* the number of keys of t that are not the key of script at their place
Strays(t, script) == Cardinality({j \in 1..Len(t) : t[j] # script[j]})

FileAbc == [name |-> <<102>>, bytes |-> <<97, 98, 99, LF>>]

Script4 == <<ARROW_RIGHT, ARROW_RIGHT, ARROW_RIGHT, ARROW_LEFT, ARROW_LEFT, BACKSPACE>>

Keys4 == {ARROW_RIGHT, ARROW_LEFT, BACKSPACE}

Main4 ==
    /\ pc = "start"
    /\ \E tabs0 \in TabsGarbage : Apply(main(Cur, Ptr(FileAbc), tabs0))
    /\ UNCHANGED <<typed, term>>

Type4 ==
    /\ Len(typed) < Len(Script4)
    /\ \E c \in Keys4, tabs0 \in TabsGarbage : Type(c, tabs0)

Next4 ==
    \/ Main4
    \/ Type4

\* the editor started on a file holding the line "abc", under the keys
\* Right, Left and Backspace
Spec4 == Init /\ [][Next4]_vars

\* C4 as stated: after Right, Right, Right, Left, Left, Backspace on "abc"
\* the line is "ac" and the cursor is at column 1.
C4_Original ==
    typed = Script4 =>
        /\ RowChars(E) = <<(<<97, 99>>)>>
        /\ E.cx = 1

\* C4 amended: after Right, Right, Right, Left, Left, Backspace on "abc" the
\* line is "bc" and the cursor is at column 0 of line 0: Backspace removes
\* the character left of column 1.
C4_Scenario ==
    typed = Script4 =>
        /\ RowChars(E) = <<(<<98, 99>>)>>
        /\ E.cx = 0
        /\ E.cy = 0
        /\ E.numrows = 1

C4_Witness == typed = Script4 /\ pc = "editing" /\ E.heapok

\* h i Enter b y e Ctrl-S t . t x t Enter
Script5 == <<104, 105, CR, 98, 121, 101, CTRL_KEY(115), 116, 46, 116, 120, 116, CR>>

Keys5 == {104, 105, CR, 98, 121, 101, CTRL_KEY(115), 116, 46, 120}

\* how many keys of a run may differ from the script
MaxStray == 1

Main5 ==
    /\ pc = "start"
    /\ Apply(main(Cur, NULL, 0))
    /\ UNCHANGED <<typed, term>>

Type5 ==
    /\ Len(typed) < Len(Script5)
    /\ \E c \in Keys5, tabs0 \in TabsGarbage :
           /\ Strays(Append(typed, c), Script5) <= MaxStray
           /\ Type(c, tabs0)

Next5 ==
    \/ Main5
    \/ Type5

\* the editor started without a file, under the keys of the save scenario
Spec5 == Init /\ [][Next5]_vars

\* C5: after h i Enter b y e Ctrl-S t . t x t Enter on an empty unnamed
\* document, the document is the 2 lines "hi" and "bye", the filename is
\* "t.txt", the 7 bytes "hi\nbye\n" were written, dirty is 0 and 7 bytes
\* written are reported.
C5_SaveAs ==
    typed = Script5 =>
        /\ RowChars(E) = <<(<<104, 105>>), (<<98, 121, 101>>)>>
        /\ E.numrows = 2
        /\ E.filename = Ptr(<<116, 46, 116, 120, 116>>)
        /\ fio.op = "write"
        /\ fio.bytes = <<104, 105, LF, 98, 121, 101, LF>>
        /\ E.dirty = 0
        /\ E.statusmsg = Msg("bytes written to disk", 7, <<>>)

----------------------------------------------------------------------------
(* inverses of the buffer operations *)

At(e, r, c) == [e EXCEPT !.cy = r, !.cx = c]

\* C6: for every row r, column c of it and character x, insertChar at (r, c)
\* followed by deleteChar at (r, c + 1) restores row r, leaves the other
\* lines and numrows unchanged, returns the cursor to (r, c) and raises
\* dirty by exactly 2.
C6_InsertDeleteInverse ==
    pc = "editing" =>
        \A r \in 0..(E.numrows - 1) :
            \A c \in 0..E.row[r + 1].size, x \in CharKeys, tabs0 \in TabsGarbage :
                LET e1 == editorInsertChar(At(E, r, c), x, tabs0)
                    e2 == editorDelChar(e1, tabs0)
                IN /\ e1.row[r + 1].chars = InsertAt(E.row[r + 1].chars, c, x)
                   /\ e1.cy = r /\ e1.cx = c + 1
                   /\ e2.row = E.row
                   /\ e2.numrows = E.numrows
                   /\ e2.cy = r /\ e2.cx = c
                   /\ e2.dirty = E.dirty + 2

\* a document of two lines, the first with a tab inside, after edits
C6_Witness ==
    /\ pc = "editing"
    /\ E.numrows = 2
    /\ E.row[1].chars = <<97, TAB>>
    /\ E.row[2].size = 1
    /\ E.dirty >= 2

\* C7: for every row r and column c of it, insertNewline at (r, c) followed
\* by deleteChar at (r + 1, 0) restores the line sequence exactly and puts
\* the cursor back at (r, c).
C7_NewlineJoinInverse ==
    pc = "editing" =>
        \A r \in 0..(E.numrows - 1) :
            \A c \in 0..E.row[r + 1].size, tabs0 \in TabsGarbage :
                LET e1 == editorInsertNewline(At(E, r, c), tabs0)
                    e2 == editorDelChar(e1, tabs0)
                IN /\ e1.numrows = E.numrows + 1
                   /\ e1.row[r + 1].chars = Front(E.row[r + 1].chars, c)
                   /\ e1.row[r + 2].chars = Tail_(E.row[r + 1].chars, c)
                   /\ e1.cy = r + 1 /\ e1.cx = 0
                   /\ e2.row = E.row
                   /\ e2.numrows = E.numrows
                   /\ e2.cy = r /\ e2.cx = c

\* a document of two lines whose second line can be split in the middle
C7_Witness ==
    /\ pc = "editing"
    /\ E.numrows = 2
    /\ E.row[2].chars = <<TAB, 97>>
    /\ E.row[1].size = 1

----------------------------------------------------------------------------
(* loading and serializing *)

\* the longest file loaded
MaxFileLen == 4

FileBytes == {97, LF, CR}

LoadFiles == UNION {[1..n -> FileBytes] : n \in 0..MaxFileLen}

MainLoad ==
    /\ pc = "start"
    /\ \E bytes \in LoadFiles, tabs0 \in TabsGarbage :
           Apply(main(Cur, Ptr([name |-> <<102>>, bytes |-> bytes]), tabs0))
    /\ UNCHANGED <<typed, term>>

\* the editor started on any file of up to MaxFileLen bytes
SpecLoad == Init /\ [][MainLoad]_vars

WithFinalNewline(bytes) ==
    IF bytes = <<>> \/ bytes[Len(bytes)] = LF THEN bytes ELSE Append(bytes, LF)

\* s without the '\r' at its end
RECURSIVE DropCRs(_)
DropCRs(s) ==
    IF s # <<>> /\ s[Len(s)] = CR THEN DropCRs(Front(s, Len(s) - 1)) ELSE s

\* bytes without the '\r' that stand before a '\n' with only '\r' between
RECURSIVE DropLineEndCR(_)
DropLineEndCR(bytes) ==
    IF bytes = <<>> THEN <<>>
    ELSE LET n == Len(bytes)
             rest == DropLineEndCR(Front(bytes, n - 1))
         IN IF bytes[n] = LF THEN Append(DropCRs(rest), LF)
            ELSE Append(rest, bytes[n])

\* C8 as stated: loading a file and serializing at once reproduces its bytes,
\* except only that a missing final newline is added.
C8_Original ==
    fio.op = "read" => editorRowsToString(E) = WithFinalNewline(fio.bytes)

\* C8 amended: loading a file and serializing at once reproduces its bytes,
\* except that a missing final newline is added and that every '\r' at the
\* end of a line (before the '\n' with nothing but '\r' between) is removed.
C8_RoundTrip ==
    fio.op = "read" =>
        editorRowsToString(E) = DropLineEndCR(WithFinalNewline(fio.bytes))

\* a file with a "\r\n" line end and no final newline was loaded
C8_Witness ==
    /\ fio.op = "read"
    /\ fio.bytes = <<97, CR, LF, 97>>
    /\ E.numrows = 2
    /\ E.heapok

RECURSIVE SumSizes(_)
SumSizes(rows) ==
    IF rows = <<>> THEN 0 ELSE rows[1].size + SumSizes(Tail(rows))

\* C9: for every document reachable by keys, the serialized bytes are each
\* line followed by one '\n', and loading those bytes yields the same
\* sequence of lines.
C9_FormatRoundTrip ==
    pc = "editing" =>
        LET bytes == editorRowsToString(E)
            back == ReadLines(initEditor(E.screenrows + 2, E.screencols), bytes, 0)
        IN /\ Len(bytes) = E.numrows + SumSizes(E.row)
           /\ RowChars(back) = RowChars(E)

DirtyStep ==
    pc \in {"editing", "prompt"} =>
        IF fio'.op = "write" THEN E'.dirty = 0
        ELSE IF RowChars(E)' # RowChars(E) THEN E'.dirty > E.dirty
        ELSE E'.dirty = E.dirty

\* C10: after startup dirty decreases only at a successful save, which sets
\* it to 0; a key that changes a line or the number of lines raises dirty; a
\* key that changes neither leaves dirty as it is.
C10_Dirty == [][DirtyStep]_vars

\* edits of a loaded file were saved
C10_Witness ==
    /\ pc = "editing"
    /\ fio.op = "write"
    /\ E.dirty = 0
    /\ E.numrows = 2
    /\ quit_times = JATE_QUIT_TIMES

----------------------------------------------------------------------------
(* saving *)

SaveFailures == IoResults \ {"ok"}

\* C11: when Ctrl-S is pressed and open, ftruncate or write fails, the editor
\* keeps running in the Editing state, sets the "Can't save!" status message
\* and leaves lines, cursor, filename and dirty as they were; no key read in
\* the prompt of a save ends the editor or changes them either; and a step
\* changes dirty to 0 only with a write of the whole serialized document.
C11_SaveRecoverable ==
    (pc \in {"editing", "prompt"} /\ E.heapok) =>
        \A c \in (IF pc = "editing" THEN {CTRL_KEY(115)} ELSE AllKeys), ior \in IoResults :
            LET n == KeyStep(Cur, c, 0, ior)
            IN /\ n.pc # "exited"
               /\ (pc = "editing" /\ E.filename # NULL /\ ior \in SaveFailures) =>
                      /\ n.pc = "editing"
                      /\ n.fio.op = ior
                      /\ n.E.statusmsg.kind = "Can't save! I/O error"
               /\ ior \in SaveFailures =>
                      /\ n.E.row = E.row
                      /\ n.E.numrows = E.numrows
                      /\ n.E.cx = E.cx
                      /\ n.E.cy = E.cy
                      /\ n.E.filename = E.filename
                      /\ n.E.dirty = E.dirty
               /\ n.E.dirty # E.dirty =>
                      /\ n.E.dirty = 0
                      /\ n.fio.op = "write"
                      /\ n.fio.bytes = editorRowsToString(E)

\* a save of an edited, named document has failed at write
C11_Witness ==
    /\ pc = "editing"
    /\ fio.op = "write_failed"
    /\ E.filename # NULL
    /\ E.dirty > 0
    /\ E.statusmsg.kind = "Can't save! I/O error"

----------------------------------------------------------------------------
(* the prompt *)

\* the keys of AllKeys that are printable ASCII
PrintableKeys == {c \in AllKeys : ~iscntrl(c) /\ c < 128}

\* C12: while the prompt is open a printable ASCII key is appended to the
\* buffer and the prompt stays open; Backspace, Ctrl-H and Delete remove the
\* last buffered character (nothing on an empty buffer); CarriageReturn with
\* a non-empty buffer ends the prompt returning the buffered characters, with
\* an empty buffer it keeps the prompt open.
C12_PromptCommit ==
    (pc = "prompt" /\ E.heapok) =>
        /\ \A c \in PrintableKeys :
               LET n == KeyStep(Cur, c, 0, "ok")
               IN n.pc = "prompt" /\ n.pbuf = Append(pbuf, c)
        /\ \A c \in {BACKSPACE, CTRL_KEY(104), DEL_KEY} :
               LET n == KeyStep(Cur, c, 0, "ok")
               IN /\ n.pc = "prompt"
                  /\ n.pbuf = IF pbuf = <<>> THEN <<>> ELSE Front(pbuf, Len(pbuf) - 1)
        /\ LET n == KeyStep(Cur, CR, 0, "ok")
           IN IF pbuf = <<>>
              THEN n.pc = "prompt" /\ n.pbuf = <<>>
              ELSE n.pc = "editing" /\ n.E.filename = Ptr(pbuf)

\* C13: a bare Escape read while the prompt is open ends the prompt with no
\* value: the save reports "Save aborted", does no file I/O, leaves the
\* filename unbound and the lines and dirty unchanged, and the editor is back
\* in the Editing state.
C13_PromptCancel ==
    (pc = "prompt" /\ E.heapok) =>
        \A ior \in IoResults :
            LET n == KeyStep(Cur, ESC, 0, ior)
            IN /\ n.pc = "editing"
               /\ n.E.statusmsg.kind = "Save aborted"
               /\ n.fio = NoIO
               /\ n.E.filename = NULL
               /\ n.E.row = E.row
               /\ n.E.numrows = E.numrows
               /\ n.E.dirty = E.dirty

----------------------------------------------------------------------------
(* the key decoder: the main loop fed from the terminal *)

\* the longest input after the first byte
MaxLookahead == 3

\* ESC [ O, A B C D F H, 0..9, ~, a, and '[' with the high bit set
InputBytes == {ESC, 91, 79, 65, 66, 67, 68, 70, 72, 126, 97, 219} \cup (48..57)

ReadResults == {ReadByte(b) : b \in InputBytes} \cup
               {ReadNone, ReadFail("EAGAIN"), ReadFail("EIO")}

Lookaheads == UNION {[1..n -> ReadResults] : n \in 0..MaxLookahead}

\* the editor started without a file, an Escape byte and more to be read
InitKey ==
    /\ \E w \in WindowSizes : E = initEditor(w[1], w[2])
    /\ quit_times = JATE_QUIT_TIMES
    /\ pc = "start"
    /\ pbuf = <<>>
    /\ fio = NoIO
    /\ typed = <<>>
    /\ \E la \in Lookaheads :
           term = [enableRawMode(Term0, "ok", "ok", "ok", "exit 1") EXCEPT
                      !.stdin = <<ReadByte(ESC)>> \o la]

MainKey ==
    /\ pc = "start"
    /\ Apply(main(Cur, NULL, 0))
    /\ UNCHANGED <<typed, term>>

\* one turn of main's loop: editorReadKey on the input, then the handler of
\* the key and the refresh; or die("read")
ReadKey ==
    /\ pc \in {"editing", "prompt"}
    /\ E.heapok
    /\ HasKey(term.stdin)
    /\ LET r == editorReadKey(term.stdin)
           t == [term EXCEPT !.stdin = r.rest]
       IN IF r.die
          THEN /\ \E tc \in CallResults, twice \in ExitTwice :
                      term' = die(t, "read", tc, twice)
               /\ pc' = "exited"
               /\ UNCHANGED <<E, quit_times, pbuf, fio, typed>>
          ELSE \E tabs0 \in TabsGarbage :
                   /\ Apply(KeyStep(Cur, r.key, tabs0, "ok"))
                   /\ typed' = Append(typed, r.key)
                   /\ term' \in TermsAfter(t, Cur, KeyStep(Cur, r.key, tabs0, "ok"))

NextKey ==
    \/ MainKey
    \/ ReadKey

SpecKey == InitKey /\ [][NextKey]_vars

\* the byte the j-th read after ESC returns, -1 when it returns none
ByteAt(la, j) == IF j <= Len(la) /\ la[j].nread = 1 THEN la[j].c ELSE -1

LetterKeys == (65 :> ARROW_UP) @@ (66 :> ARROW_DOWN) @@ (67 :> ARROW_RIGHT) @@
              (68 :> ARROW_LEFT) @@ (72 :> HOME_KEY) @@ (70 :> END_KEY)

TildeKeys == (49 :> HOME_KEY) @@ (55 :> HOME_KEY) @@ (52 :> END_KEY) @@ (56 :> END_KEY) @@
             (51 :> DEL_KEY) @@ (53 :> PAGE_UP) @@ (54 :> PAGE_DOWN)

OKeys == (72 :> HOME_KEY) @@ (70 :> END_KEY)

\* the key the sequences listed name for the bytes `la` that follow ESC
ListedKey(la) ==
    LET b0 == ByteAt(la, 1)
        b1 == ByteAt(la, 2)
        b2 == ByteAt(la, 3)
    IN IF b0 = 91 /\ b1 \in DOMAIN LetterKeys THEN LetterKeys[b1]
       ELSE IF b0 = 91 /\ b1 \in DOMAIN TildeKeys /\ b2 = 126 THEN TildeKeys[b1]
       ELSE IF b0 = 79 /\ b1 \in DOMAIN OKeys THEN OKeys[b1]
       ELSE ESC

\* C14: once editorReadKey has read an ESC byte it does at most 3 more reads
\* and returns; when one of them times out it returns ESC; ESC [ A/B/C/D are
\* the arrows Up/Down/Right/Left, ESC [ H, ESC [ 1 ~, ESC [ 7 ~ and ESC O H
\* Home, ESC [ F, ESC [ 4 ~, ESC [ 8 ~ and ESC O F End, ESC [ 3 ~ Delete,
\* ESC [ 5 ~ PageUp, ESC [ 6 ~ PageDown; every other sequence is ESC.
C14_EscapeDecoding ==
    (pc \in {"start", "editing"} /\ term.stdin # <<>> /\ Head(term.stdin) = ReadByte(ESC)) =>
        LET la == Tail(term.stdin)
            r == editorReadKey(term.stdin)
        IN /\ ~r.die
           /\ r.reads <= 3
           /\ Len(r.rest) >= Len(la) - r.reads
           /\ (\E j \in 1..r.reads : read(Tail_(la, j - 1)).nread = 0) => r.key = ESC
           /\ r.key = ListedKey(la)

\* ESC [ 3 ~ was read as Delete and handled
C14_Witness ==
    /\ pc = "editing"
    /\ typed = <<DEL_KEY>>
    /\ term.stdin = <<>>

----------------------------------------------------------------------------
(* the process from its start to its end *)

\* the global E before initEditor: zero in every field
ZeroE == initEditor(2, 0)

\* what getWindowSize returns and stores
WindowSizeResults == {[ret |-> 0, rows |-> w[1], cols |-> w[2]] : w \in WindowSizes} \cup
                     {[ret |-> -1, rows |-> 0, cols |-> 0]}

\* the keys read in the runs of the whole process
ProcKeys == {97, CR, CTRL_KEY(113), CTRL_KEY(115)}

Boot ==
    /\ E = ZeroE
    /\ quit_times = JATE_QUIT_TIMES
    /\ pc = "boot"
    /\ pbuf = <<>>
    /\ fio = NoIO
    /\ typed = <<>>
    /\ term = Term0

EnableRawMode ==
    /\ pc = "boot"
    /\ \E get \in CallResults, set \in CallResults, tc \in CallResults, twice \in ExitTwice :
           term' = enableRawMode(term, get, set, tc, twice)
    /\ pc' = IF term'.status = "running" THEN "init" ELSE "exited"
    /\ UNCHANGED <<E, quit_times, pbuf, fio, typed>>

InitEditor ==
    /\ pc = "init"
    /\ \E w \in WindowSizeResults, tc \in CallResults, twice \in ExitTwice :
           IF w.ret = -1
           THEN /\ E' = initEditor(E.screenrows + 2, E.screencols)
                /\ term' = die(term, "getWindowSize", tc, twice)
                /\ pc' = "exited"
           ELSE /\ E' = initEditor(w.rows, w.cols)
                /\ term' = term
                /\ pc' = "start"
    /\ UNCHANGED <<quit_times, pbuf, fio, typed>>

MainProc ==
    /\ pc = "start"
    /\ \E argv1 \in {NULL} \cup {Ptr(f) : f \in StartFiles}, fopen \in CallResults,
          tabs0 \in TabsGarbage, tc \in CallResults, twice \in ExitTwice :
           IF argv1 # NULL /\ fopen = "failed"
           THEN /\ E' = [E EXCEPT !.filename = Ptr(Deref(argv1).name)]
                /\ term' = die(term, "fopen", tc, twice)
                /\ pc' = "exited"
                /\ UNCHANGED <<quit_times, pbuf, fio>>
           ELSE /\ Apply(main(Cur, argv1, tabs0))
                /\ term' = term
    /\ Bounded'
    /\ UNCHANGED typed

ProcKey ==
    /\ pc \in {"editing", "prompt"}
    /\ E.heapok
    /\ \E c \in ProcKeys, tabs0 \in TabsGarbage : Key(c, tabs0, "ok")

\* a read of editorReadKey fails: die("read")
ReadFails ==
    /\ pc \in {"editing", "prompt"}
    /\ E.heapok
    /\ \E tc \in CallResults, twice \in ExitTwice : term' = die(term, "read", tc, twice)
    /\ pc' = "exited"
    /\ UNCHANGED <<E, quit_times, pbuf, fio, typed>>

NextProc ==
    \/ EnableRawMode
    \/ InitEditor
    \/ MainProc
    \/ ProcKey
    \/ ReadFails

SpecProc == Boot /\ [][NextProc]_vars

Logged(ev) == \E i \in 1..Len(term.log) : term.log[i] = ev

\* the place of the first ev in the log, 0 when it is not there
FirstAt(ev) ==
    IF Logged(ev) THEN CHOOSE i \in 1..Len(term.log) :
                           /\ term.log[i] = ev
                           /\ \A j \in 1..(i - 1) : term.log[j] # ev
    ELSE 0

RawEntered == Logged(Ev("tcsetattr", "raw"))

Ended == term.status \in {"exit 0", "exit 1"}

\* the fatal errors of a running editor: what die was called with
FatalErrors == {"read", "getWindowSize", "fopen"}

\* the tcsetattr of disableRawMode has failed
RestoreFailed == Logged(Ev("perror", "tcsetattr")) /\ RawEntered

UserQuit == Logged(Ev("write", "\\x0b[H"))

\* C15: once raw mode was entered, every way the process ends (the quit
\* with status 0; die after a failed read, getWindowSize or fopen with
\* status 1) has set the terminal back to its original attributes, as the
\* last change of the attributes, before the process ended.
C15_RestoreOnExit ==
    (Ended /\ RawEntered /\ ~RestoreFailed) =>
        /\ term.attrs = "orig"
        /\ term.log[Len(term.log)] = Ev("tcsetattr", "orig")
        /\ UserQuit => term.status = "exit 0"
        /\ (\E s \in FatalErrors : Logged(Ev("perror", s))) => term.status = "exit 1"
        /\ UserQuit \/ \E s \in FatalErrors : Logged(Ev("perror", s))

\* the process was ended by a failed read after keys were handled
C15_Witness ==
    /\ term.status = "exit 1"
    /\ Logged(Ev("perror", "read"))
    /\ term.attrs = "orig"
    /\ E.dirty > 0

\* C16 as stated: on a fatal error after raw mode was entered the original
\* attributes are restored before the diagnostic is output and before the
\* process ends.
C16_Original ==
    \A s \in FatalErrors :
        (Ended /\ RawEntered /\ ~RestoreFailed /\ Logged(Ev("perror", s))) =>
            /\ Logged(Ev("tcsetattr", "orig"))
            /\ FirstAt(Ev("tcsetattr", "orig")) < FirstAt(Ev("perror", s))

\* C16 amended: on a fatal error after raw mode was entered die first clears
\* the screen and outputs the diagnostic, with the terminal still in raw
\* mode; the original attributes are restored after that, by the atexit
\* function that exit runs, before the process ends.
C16_DiagnosticThenRestore ==
    \A s \in FatalErrors :
        (Ended /\ RawEntered /\ ~RestoreFailed /\ Logged(Ev("perror", s))) =>
            /\ FirstAt(Ev("tcsetattr", "raw")) < FirstAt(Ev("perror", s))
            /\ FirstAt(Ev("perror", s)) + 1 = FirstAt(Ev("tcsetattr", "orig"))
            /\ FirstAt(Ev("tcsetattr", "orig")) = Len(term.log)
            /\ term.attrs = "orig"
            /\ term.status = "exit 1"

\* the file named on the command line could not be opened
C16_Witness ==
    /\ term.status = "exit 1"
    /\ Logged(Ev("perror", "fopen"))
    /\ term.attrs = "orig"
    /\ E.filename # NULL

----------------------------------------------------------------------------
(* scrolling *)

\* the handler of the key c without the refresh that follows it
Handled(s, c, tabs0, ior) ==
    IF s.pc = "prompt" THEN editorPrompt([s EXCEPT !.fio = NoIO], c, ior)
    ELSE editorProcessKeypress([s EXCEPT !.fio = NoIO], c, tabs0, ior)

RxOf(e) == IF e.cy < e.numrows THEN editorRowCxToRx(e.row[e.cy + 1], e.cx) ELSE 0

\* C17: with at least one text row and one column, in every frame after
\* editorScroll 0 <= rowoff <= cy < rowoff + screenrows and
\* 0 <= coloff <= rx < coloff + screencols; and editorScroll leaves an offset
\* as it is when the cursor was inside the window on that axis.
C17_ScrollIntoView ==
    /\ (pc \in {"editing", "prompt"} /\ E.screenrows >= 1 /\ E.screencols >= 1) =>
           /\ 0 <= E.rowoff /\ E.rowoff <= E.cy /\ E.cy < E.rowoff + E.screenrows
           /\ 0 <= E.coloff /\ E.coloff <= E.rx /\ E.rx < E.coloff + E.screencols
           /\ E.rx = RxOf(E)
    /\ (pc \in {"editing", "prompt"} /\ E.heapok) =>
           \A c \in AllKeys, tabs0 \in TabsGarbage :
               LET m == Handled(Cur, c, tabs0, "ok").E
                   n == editorScroll(m)
               IN /\ (m.rowoff <= m.cy /\ m.cy < m.rowoff + m.screenrows)
                         => n.rowoff = m.rowoff
                  /\ (m.coloff <= RxOf(m) /\ RxOf(m) < m.coloff + m.screencols)
                         => n.coloff = m.coloff

\* the frame is scrolled down and to the right, the cursor behind a tab
C17_Witness ==
    /\ pc = "editing"
    /\ E.rowoff = 1
    /\ E.coloff = 7
    /\ E.cy = 1
    /\ E.rx = 8

----------------------------------------------------------------------------
(* rendering *)

Spaces(n) == [i \in 1..n |-> SPACE]

\* the tab expansion: each tab is padded with spaces to the next multiple of
\* JATE_TABSTOP columns, every other character is copied
RECURSIVE TabExpand(_)
TabExpand(chars) ==
    IF chars = <<>> THEN <<>>
    ELSE LET before == TabExpand(Front(chars, Len(chars) - 1))
             x == chars[Len(chars)]
         IN IF x = TAB
            THEN before \o Spaces(JATE_TABSTOP - (Len(before) % JATE_TABSTOP))
            ELSE Append(before, x)

\* C18: after every buffer operation each line's render, held in the memory
\* allocated for it, is exactly the tab expansion of its chars, and for every
\* cx in 0..size editorRowCxToRx(line, cx) is the length of the expansion of
\* the first cx chars, so editorRowCxToRx(line, size) = rsize.
C18_TabExpansion ==
    pc \in {"editing", "prompt"} =>
        /\ E.heapok
        /\ \A i \in 1..Len(E.row) :
               LET row == E.row[i]
               IN /\ row.size = Len(row.chars)
                  /\ row.render = TabExpand(row.chars)
                  /\ row.rsize = Len(row.render)
                  /\ \A cx \in 0..row.size :
                         editorRowCxToRx(row, cx) = Len(TabExpand(Front(row.chars, cx)))
                  /\ editorRowCxToRx(row, row.size) = row.rsize

----------------------------------------------------------------------------
(* joining lines *)

\* the document, and the document with an empty line put before it
JoinDocs == {E, editorInsertNewline(At(E, 0, 0), 0)}

BackspaceAt(e, r, tabs0) == KeyStep([Cur EXCEPT !.E = At(e, r, 0)], BACKSPACE, tabs0, "ok").E

\* the chars of line r of e, none for the line after the last
CharsOf(e, r) == IF r < e.numrows THEN e.row[r + 1].chars ELSE <<>>

Joined(e, r, n) ==
    /\ n.cy = r - 1
    /\ n.cx = e.row[r].size
    /\ n.numrows = e.numrows - 1
    /\ n.row[r].chars = e.row[r].chars \o CharsOf(e, r)
    /\ \A j \in 1..(r - 1) : n.row[j] = e.row[j]
    /\ \A j \in (r + 1)..n.numrows : n.row[j] = e.row[j + 1]

\* C19 as stated: with cx = 0 and any cy from 1 to numrows, Backspace puts
\* the cursor at (cy - 1, length of line cy - 1), appends the current line to
\* the line before it and removes the current line, the lines after it
\* moving up by one.
C19_Original ==
    (pc = "editing" /\ E.heapok) =>
        \A e \in JoinDocs, tabs0 \in TabsGarbage :
            \A r \in 1..e.numrows : Joined(e, r, BackspaceAt(e, r, tabs0))

\* C19 amended: with cx = 0 and 0 < cy < numrows Backspace puts the cursor
\* at (cy - 1, length of line cy - 1), appends the current line to the line
\* before it and removes the current line, the lines after it moving up by
\* one; with cy = numrows (the cursor below the last line) it does nothing.
C19_BackspaceJoin ==
    (pc = "editing" /\ E.heapok) =>
        \A e \in JoinDocs, tabs0 \in TabsGarbage :
            \A r \in 1..e.numrows :
                LET n == BackspaceAt(e, r, tabs0)
                IN IF r < e.numrows
                   THEN Joined(e, r, n) /\ n.dirty > e.dirty
                   ELSE /\ n.cy = r /\ n.cx = 0
                        /\ n.row = e.row
                        /\ n.numrows = e.numrows
                        /\ n.dirty = e.dirty

\* the cursor at the start of the second of two lines
C19_Witness ==
    /\ pc = "editing"
    /\ E.heapok
    /\ E.numrows = 2
    /\ E.cy = 1
    /\ E.cx = 0
    /\ E.row[1].chars = <<TAB>>
    /\ E.row[2].chars = <<97>>

----------------------------------------------------------------------------
(* the page keys *)

PageKeys == {PAGE_UP, PAGE_DOWN}

\* a vertical move further in the direction of the page key c is possible
RoomToMove(e, c) == IF c = PAGE_UP THEN e.cy > 0 ELSE e.cy < e.numrows

OneFurther(e, c) == IF c = PAGE_UP THEN e.cy - 1 ELSE e.cy + 1

\* C20 as stated: the page keys fall through into the arrow case, and
\* whenever there is room the cursor ends one row further than the jump
\* followed by screenrows vertical moves takes it.
C20_Original ==
    (pc = "editing" /\ E.heapok /\ E.screenrows >= 1) =>
        \A c \in PageKeys :
            LET base == PageMove(E, c)
                n == Handled(Cur, c, 0, "ok").E
            IN RoomToMove(base, c) => n.cy = OneFurther(base, c)

\* C20 amended: the page keys fall through into the arrow case, where
\* editorMoveCursor is called with the page key itself; that is none of the
\* four arrows, so with screenrows >= 1 the cursor ends exactly where the
\* jump followed by screenrows vertical moves takes it, room or not.
C20_NoExtraMove ==
    (pc = "editing" /\ E.heapok /\ E.screenrows >= 1) =>
        \A c \in PageKeys :
            LET base == PageMove(E, c)
                n == Handled(Cur, c, 0, "ok")
            IN /\ n.E.cy = base.cy
               /\ n.E.cx = base.cx
               /\ n.E.row = E.row
               /\ n.pc = "editing"
               /\ base.cy = IF c = PAGE_UP
                            THEN (IF E.rowoff > E.screenrows THEN E.rowoff - E.screenrows ELSE 0)
                            ELSE (IF E.rowoff + 2 * E.screenrows - 1 < E.numrows
                                  THEN E.rowoff + 2 * E.screenrows - 1 ELSE E.numrows)

\* the first of two lines is shown: after PageDown there is room below
C20_Witness ==
    /\ pc = "editing"
    /\ E.heapok
    /\ E.numrows = 2
    /\ E.rowoff = 0
    /\ E.cy = 0
    /\ E.row[1].size = 1
    /\ E.row[2].size = 2

----------------------------------------------------------------------------
(* the Delete key *)

\* the lines of e with the character at index cx of line cy taken out
CharRemoved(e, cy, cx) == [RowChars(e) EXCEPT ![cy + 1] = RemoveAt(@, cx)]

\* the lines of e with line cy + 1 joined onto line cy
NextJoined(e, cy) ==
    LET rows == RowChars(e)
    IN Front(rows, cy) \o <<rows[cy + 1] \o rows[cy + 2]>> \o SubSeq(rows, cy + 3, Len(rows))

\* C21: pressing Delete leaves the cursor (cy, cx) where it is and changes
\* the document only by removing the character at index cx of line cy or,
\* with cx at the end of line cy and a next line, by joining the next line
\* onto line cy; with nothing after the cursor (the end of the last line, or
\* cy = numrows) neither the document nor the cursor changes.
C21_DeleteKey ==
    (pc = "editing" /\ E.heapok) =>
        \A tabs0 \in TabsGarbage :
            LET n == KeyStep(Cur, DEL_KEY, tabs0, "ok").E
            IN /\ n.cy = E.cy
               /\ n.cx = E.cx
               /\ IF E.cy < E.numrows /\ E.cx < E.row[E.cy + 1].size
                  THEN RowChars(n) = CharRemoved(E, E.cy, E.cx)
                  ELSE IF E.cy + 1 < E.numrows
                  THEN RowChars(n) = NextJoined(E, E.cy)
                  ELSE /\ RowChars(n) = RowChars(E)
                       /\ n.numrows = E.numrows
                       /\ n.dirty = E.dirty

----------------------------------------------------------------------------
(* the status bar *)

\* "[No Name]", " - ", " lines", "(modified)" and "/" as bytes
NoName == <<91, 78, 111, 32, 78, 97, 109, 101, 93>>
Dash == <<SPACE, 45, SPACE>>
LinesWord == <<SPACE, 108, 105, 110, 101, 115>>
Modified == <<40, 109, 111, 100, 105, 102, 105, 101, 100, 41>>
Slash == <<47>>

\* the escape sequences around the bar, and the end of its row
InverseVideo == <<ESC, 91, 55, 109>>
NormalVideo == <<ESC, 91, 109>>
CRLF == <<CR, LF>>

\* sizeof(status) and sizeof(rstatus), and the precision of "%.20s"
StatusSize == 80
NamePrecision == 20

Min(a, b) == IF a < b THEN a ELSE b

\* the conversion "%d"
RECURSIVE FormatInt(_)
FormatInt(n) ==
    IF n < 0 THEN <<45>> \o FormatInt(0 - n)
    ELSE IF n < 10 THEN <<48 + n>>
    ELSE FormatInt(n \div 10) \o <<48 + (n % 10)>>

\* snprintf into a buffer of size bytes: the bytes stored, and the length
\* returned, which is that of the whole formatted text
snprintf(size, text) == [b |-> Front(text, Min(Len(text), size - 1)), len |-> Len(text)]

\* the text of the format "%.20s - %d lines": the arguments after the
\* second have no conversion in the format and are not printed
StatusFormat(name, numrows, marker) ==
    Front(name, Min(Len(name), NamePrecision)) \o Dash \o FormatInt(numrows) \o LinesWord

\* the text of the format "%d/%d"
RStatusFormat(line, numrows) == FormatInt(line) \o Slash \o FormatInt(numrows)

\* the loop that fills the bar from column len on: spaces, and the right
\* part once exactly its length is left
RECURSIVE StatusFill(_, _, _)
StatusFill(len, screencols, rstatus) ==
    IF len < screencols
    THEN IF screencols - len = rstatus.len
         THEN Front(rstatus.b, rstatus.len)
         ELSE <<SPACE>> \o StatusFill(len + 1, screencols, rstatus)
    ELSE <<>>

\* the cells of the status bar
StatusBarCells(e) ==
    LET status == snprintf(StatusSize,
                           StatusFormat(IF e.filename # NULL THEN Deref(e.filename) ELSE NoName,
                                        e.numrows,
                                        IF e.dirty # 0 THEN Modified ELSE <<>>))
        rstatus == snprintf(StatusSize, RStatusFormat(e.cy + 1, e.numrows))
        len == IF status.len > e.screencols THEN e.screencols ELSE status.len
    IN Front(status.b, len) \o StatusFill(len, e.screencols, rstatus)

\* what editorDrawStatusBar appends to the frame
editorDrawStatusBar(e) == InverseVideo \o StatusBarCells(e) \o NormalVideo \o CRLF

\* a terminal of 3 rows and 40 columns, wide enough for both parts of the bar
BarWindow == <<3, 40>>

InitBar ==
    /\ E = initEditor(BarWindow[1], BarWindow[2])
    /\ quit_times = JATE_QUIT_TIMES
    /\ pc = "start"
    /\ pbuf = <<>>
    /\ fio = NoIO
    /\ typed = <<>>
    /\ term = enableRawMode(Term0, "ok", "ok", "ok", "exit 1")

NextBar ==
    \/ Main
    \/ InsertNewline
    \/ InsertChar
    \/ Backspace
    \/ Arrow
    \/ Save
    \/ PromptKey

SpecBar == InitBar /\ [][NextBar]_vars

IsPrefix(p, s) == Len(p) <= Len(s) /\ Front(s, Len(p)) = p

IsSuffix(p, s) == Len(p) <= Len(s) /\ SubSeq(s, Len(s) - Len(p) + 1, Len(s)) = p

Contains(s, p) == \E i \in 1..(Len(s) - Len(p) + 1) : SubSeq(s, i, i + Len(p) - 1) = p

\* the frame's status bar: the cells between the two escape sequences
FrameBar(e) ==
    LET a == editorDrawStatusBar(e)
    IN SubSeq(a, Len(InverseVideo) + 1, Len(a) - Len(NormalVideo) - Len(CRLF))

\* C22: in every frame the status bar starts with the file name, or
\* "[No Name]" when none is bound, and the line count, holds the modified
\* marker exactly when dirty > 0, and ends with current-line/total-lines,
\* that is (cy + 1)/numrows.
C22_StatusBar ==
    (pc \in {"editing", "prompt"} /\ E.heapok) =>
        LET bar == FrameBar(E)
            name == IF E.filename # NULL THEN Deref(E.filename) ELSE NoName
        IN /\ Len(bar) = E.screencols
           /\ IsPrefix(name \o Dash \o FormatInt(E.numrows) \o LinesWord, bar)
           /\ IsSuffix(FormatInt(E.cy + 1) \o Slash \o FormatInt(E.numrows), bar)
           /\ Contains(bar, Modified) <=> E.dirty > 0

----------------------------------------------------------------------------
(* the row primitives *)

\* the indices the primitives are tried with: from one below the first
\* line to one above the line after the last
RowIndices(e) == -1..(e.numrows + 1)

\* C23: editorInsertRow(at) inserts the line for 0 <= at <= numrows and
\* editorDelRow(at) removes exactly line at for 0 <= at < numrows; for every
\* other at, editorDelRow(numrows) included, the call leaves the lines,
\* numrows and dirty as they were and touches no line at index >= numrows.
C23_RowBounds ==
    (pc = "editing" /\ E.heapok) =>
        \A at \in RowIndices(E), tabs0 \in TabsGarbage :
            LET ins == editorInsertRow(E, at, <<97>>, tabs0)
                del == editorDelRow(E, at)
            IN /\ IF 0 <= at /\ at <= E.numrows
                  THEN /\ RowChars(ins) = InsertAt(RowChars(E), at, <<97>>)
                       /\ ins.numrows = E.numrows + 1
                  ELSE ins = E
               /\ IF 0 <= at /\ at < E.numrows
                  THEN /\ RowChars(del) = RemoveAt(RowChars(E), at)
                       /\ del.numrows = E.numrows - 1
                       /\ del.heapok
                  ELSE del = E

----------------------------------------------------------------------------
(* the startup banner *)

\* editorDrawRows draws the welcome banner in this frame: on the screen row
\* screenrows / 3, when that row is below the document and numrows is 0
WelcomeDrawn(e) ==
    \E y \in 0..(e.screenrows - 1) :
        /\ y + e.rowoff >= e.numrows
        /\ e.numrows = 0
        /\ y = e.screenrows \div 3

\* the keys that reach editorDelChar
DelKeys == {BACKSPACE, CTRL_KEY(104), DEL_KEY}

\* the i/o results that matter to the key c
IoFor(c) == IF c \in {CTRL_KEY(115), CR} THEN IoResults ELSE {"ok"}

\* C24: once the document has a line (numrows >= 1), no key brings numrows
\* back to 0, so no later frame shows the startup banner; a key removes a
\* line only if it is Backspace, Ctrl-H or Delete pressed in the main loop
\* on a document of two or more lines, and then it removes exactly one line
\* by joining it onto the line before it.
C24_NeverEmptyAgain ==
    (pc \in {"editing", "prompt"} /\ E.heapok /\ E.numrows >= 1) =>
        \A c \in AllKeys, tabs0 \in TabsGarbage :
            \A ior \in IoFor(c) :
                LET n == KeyStep(Cur, c, tabs0, ior).E
                IN /\ n.numrows >= 1
                   /\ ~WelcomeDrawn(n)
                   /\ n.numrows < E.numrows =>
                          /\ pc = "editing"
                          /\ c \in DelKeys
                          /\ E.numrows >= 2
                          /\ n.numrows = E.numrows - 1
                          /\ n.cy >= 0
                          /\ n.cy < n.numrows
                          /\ RowChars(n) = NextJoined(E, n.cy)

\* the cursor at the start of the second of two lines, where Backspace
\* removes a line and leaves one
C24_Witness ==
    /\ pc = "editing"
    /\ E.heapok
    /\ E.numrows = 2
    /\ E.cy = 1
    /\ E.cx = 0
    /\ KeyStep(Cur, BACKSPACE, 0, "ok").E.numrows = 1
    /\ ~WelcomeDrawn(KeyStep(Cur, BACKSPACE, 0, "ok").E)

====
